---- MODULE Spec2Model ----
(***************************************************************************)
(* Serialization of a cyclic friendship graph of Person objects, in the    *)
(* three variants of the repository:                                       *)
(*   "encapsulated"  lab3_oop_encapsulated.py  (Person, PersonSerializer)  *)
(*   "direct"        lab3_oop_direct_access.py (PersonDirectAccess,        *)
(*                                              DirectAccessSerializer)    *)
(*   "functional"    lab3_functional.py        (dict-based PersonData)     *)
(*                                                                         *)
(* A person object is named by its index p \in Persons (object identity).  *)
(* Its uuid4 string is Id(p); uuid4 values are taken to be distinct.       *)
(* In the two OOP variants a friends list holds object references         *)
(* (indices); in the functional variant it holds id strings.               *)
(* The bytes produced by json.dumps(...).encode('utf-8') are modelled by   *)
(* the JSON value they encode (lists, dicts and strings survive            *)
(* json.dumps / json.loads unchanged); datetime.isoformat() and            *)
(* datetime.fromisoformat() are modelled by what they write and parse.     *)
(***************************************************************************)
EXTENDS Integers, Sequences, FiniteSets, TLC

\* ------------------------------------------------------------------ bounds
NumPersons == 4      \* persons created before any add_friend call
MaxCalls == 3        \* add_friend calls made while the graph is built
MaxTamper == 1       \* edits made to a container between encode and decode
MaxDepth == 5        \* cap on the depth of the stepwise traversal's call stack

VARIABLES
    variant,         \* which of the three modules is in use
    born_in,         \* born_in[p]: the datetime given to the constructor of p
    friends,         \* friends[p]: _friends / person['friends'] of p
    calls,           \* number of add_friend calls made so far
    last,            \* the operation performed last, with its arguments
    root,            \* the person serialize was called with (None before)
    sent,            \* what serialize returned (None before serialization)
    data,            \* the container handed to deserialize (sent, possibly edited)
    tampered,        \* the edits made to data since serialization
    restored,        \* what deserialize returned or raised (None before)
    resent,          \* what serialize returned or raised for the restored root
    phase,           \* stepwise traversal: "idle", "collect", "done"
    stack,           \* stepwise traversal: the active collect_objects frames
    visited_ids,     \* stepwise traversal: the visited_ids set
    objects_to_save, \* stepwise traversal: the objects_to_save list
    visits           \* stepwise traversal: calls of collect_objects so far

vars == <<variant, born_in, friends, calls, last, root, sent, data, tampered, restored,
          resent,
          phase, stack, visited_ids, objects_to_save, visits>>

collectVars == <<phase, stack, visited_ids, objects_to_save, visits>>

Variants == {"encapsulated", "direct", "functional"}
Persons == 1..NumPersons
None == [none |-> TRUE]

\* ------------------------------------------------------------ small helpers
Range(s) == {s[i] : i \in 1..Len(s)}

\* --------------------------------------------------------------- datetimes
\* A datetime is [date, sec, us]: calendar date, second of the day, microsecond.
Datetimes == << [date |-> <<1990, 5, 15>>, sec |-> 0, us |-> 0],
               [date |-> <<1992, 8, 22>>, sec |-> 3723, us |-> 45] >>

\* The birth dates the persons are created with: the two datetimes alternate
\* over the persons, starting with either.
BornInChoices ==
    { [p \in 1..NumPersons |-> Datetimes[((p + k) % Len(Datetimes)) + 1]] :
          k \in 1..Len(Datetimes) }

\* datetime.isoformat(): "YYYY-MM-DDTHH:MM:SS", followed by ".ffffff" only when
\* the microsecond is not 0.  The text is modelled as its sequence of fields.
isoformat_seconds_only(d) == <<d.date, "T", d.sec>>
isoformat(d) ==
    IF d.us = 0 THEN <<d.date, "T", d.sec>>
                ELSE <<d.date, "T", d.sec, ".", d.us>>

\* datetime.fromisoformat(): the microsecond is 0 when the text has no fraction.
fromisoformat(t) ==
    [date |-> t[1], sec |-> t[3], us |-> IF Len(t) > 3 THEN t[5] ELSE 0]

\* ----------------------------------------------------------------- persons
\* str(uuid.uuid4()) of person p.
Id(p) == <<"uuid4", p>>

\* The names the constructors are given (the test's and the demo's names).
Names == <<"Ivan", "Maria", "Alexey", "Test">>
Name(p) == Names[((p - 1) % Len(Names)) + 1]

\* persons_dict of the functional variant: every created person under its id.
persons_dict(id) == id[2]

\* The ids a person's friends list denotes, in list order.
FriendIds(fr, v, p) ==
    IF v = "functional" THEN fr[p]
    ELSE [k \in 1..Len(fr[p]) |-> Id(fr[p][k])]

\* The persons a person's friends list denotes, in list order.
FriendPersons(fr, v, p) ==
    IF v = "functional" THEN [k \in 1..Len(fr[p]) |-> persons_dict(fr[p][k])]
    ELSE fr[p]

\* --------------------------------------------------------------- add_friend
\* Person.add_friend(self, friend): append friend unless present, then call
\* friend.add_friend(self) unless self is already in friend's list.
RECURSIVE Person_add_friend(_, _, _)
Person_add_friend_always(fr, self, friend) ==
    [fr EXCEPT ![self] = Append(@, friend)]
Person_add_friend(fr, self, friend) ==
    IF friend \notin Range(fr[self])
    THEN LET fr1 == [fr EXCEPT ![self] = Append(@, friend)]
         IN  IF self \notin Range(fr1[friend])
             THEN Person_add_friend(fr1, friend, self)
             ELSE fr1
    ELSE fr

\* PersonDirectAccess.add_friend(self, friend): the same code.
RECURSIVE PersonDirectAccess_add_friend(_, _, _)
PersonDirectAccess_add_friend_one_way(fr, self, friend) ==
    IF friend \notin Range(fr[self])
    THEN [fr EXCEPT ![self] = Append(@, friend)]
    ELSE fr
PersonDirectAccess_add_friend(fr, self, friend) ==
    IF friend \notin Range(fr[self])
    THEN LET fr1 == [fr EXCEPT ![self] = Append(@, friend)]
         IN  IF self \notin Range(fr1[friend])
             THEN PersonDirectAccess_add_friend(fr1, friend, self)
             ELSE fr1
    ELSE fr

\* add_friend(person1, person2, persons_dict) of the functional variant: both
\* appends happen when person2's id is not in person1's list; persons_dict is
\* not used.
add_friend(fr, person1, person2) ==
    IF Id(person2) \notin Range(fr[person1])
    THEN LET fr1 == [fr EXCEPT ![person1] = Append(@, Id(person2))]
         IN  [fr1 EXCEPT ![person2] = Append(@, Id(person1))]
    ELSE fr

AddFriendOf(v, fr, a, b) ==
    CASE v = "encapsulated" -> Person_add_friend(fr, a, b)
      [] v = "direct"       -> PersonDirectAccess_add_friend(fr, a, b)
      [] v = "functional"   -> add_friend(fr, a, b)

\* ---------------------------------------------------------------- serialize
\* Person.to_dict(): the flat record of p.
to_dict(fr, born, p) ==
    [id |-> Id(p), name |-> Name(p), born_in |-> isoformat(born[p]),
     friends |-> [k \in 1..Len(fr[p]) |-> Id(fr[p][k])]]

\* A traversal state is [visited_ids, objects_to_save].
EmptyCollect == [visited_ids |-> {}, objects_to_save |-> <<>>]

\* PersonSerializer.serialize.collect_objects(p), and its loop over
\* p.get_friends() from position i on.
RECURSIVE enc_collect_objects(_, _, _, _)
RECURSIVE enc_collect_friends(_, _, _, _, _)
enc_collect_objects_postorder(fr, born, st, p) ==
    IF Id(p) \in st.visited_ids
    THEN st
    ELSE LET st1 == enc_collect_friends(fr, born,
                        [st EXCEPT !.visited_ids = @ \cup {Id(p)}], fr[p], 1)
         IN  [st1 EXCEPT !.objects_to_save = Append(@, to_dict(fr, born, p))]
enc_collect_objects(fr, born, st, p) ==
    IF Id(p) \in st.visited_ids
    THEN st
    ELSE enc_collect_friends(fr, born,
             [visited_ids |-> st.visited_ids \cup {Id(p)},
              objects_to_save |-> Append(st.objects_to_save, to_dict(fr, born, p))],
             fr[p], 1)
enc_collect_friends(fr, born, st, fs, i) ==
    IF i > Len(fs)
    THEN st
    ELSE enc_collect_friends(fr, born, enc_collect_objects(fr, born, st, fs[i]),
                             fs, i + 1)

\* PersonSerializer.serialize(person): the list of records.
PersonSerializer_serialize(fr, born, person) ==
    enc_collect_objects(fr, born, EmptyCollect, person).objects_to_save

\* DirectAccessSerializer.serialize.collect_objects(p): the record is built in
\* place from _id, _name, _born_in and _friends.
RECURSIVE dir_collect_objects(_, _, _, _)
RECURSIVE dir_collect_friends(_, _, _, _, _)
dir_collect_objects(fr, born, st, p) ==
    IF Id(p) \in st.visited_ids
    THEN st
    ELSE LET obj_data == [id |-> Id(p), name |-> Name(p),
                          born_in |-> isoformat(born[p]),
                          friends |-> [k \in 1..Len(fr[p]) |-> Id(fr[p][k])]]
         IN  dir_collect_friends(fr, born,
                 [visited_ids |-> st.visited_ids \cup {Id(p)},
                  objects_to_save |-> Append(st.objects_to_save, obj_data)],
                 fr[p], 1)
dir_collect_friends_skip_last(fr, born, st, fs, i) ==
    IF i >= Len(fs)
    THEN st
    ELSE dir_collect_friends(fr, born, dir_collect_objects(fr, born, st, fs[i]),
                             fs, i + 1)
dir_collect_friends(fr, born, st, fs, i) ==
    IF i > Len(fs)
    THEN st
    ELSE dir_collect_friends(fr, born, dir_collect_objects(fr, born, st, fs[i]),
                             fs, i + 1)

\* DirectAccessSerializer.serialize(person): the list of records.
DirectAccessSerializer_serialize(fr, born, person) ==
    dir_collect_objects(fr, born, EmptyCollect, person).objects_to_save

\* serialize_functional.collect_objects(person_id): the record is a copy of the
\* person's dict with born_in replaced by its text.
RECURSIVE fun_collect_objects(_, _, _, _)
RECURSIVE fun_collect_friends(_, _, _, _, _)
fun_collect_objects(fr, born, st, person_id) ==
    IF person_id \in st.visited_ids
    THEN st
    ELSE LET person == persons_dict(person_id)
             obj_copy == [id |-> Id(person), name |-> Name(person),
                          born_in |-> isoformat(born[person]),
                          friends |-> fr[person]]
         IN  fun_collect_friends(fr, born,
                 [visited_ids |-> st.visited_ids \cup {person_id},
                  objects_to_save |-> Append(st.objects_to_save, obj_copy)],
                 fr[person], 1)
fun_collect_friends(fr, born, st, fs, i) ==
    IF i > Len(fs)
    THEN st
    ELSE fun_collect_friends(fr, born, fun_collect_objects(fr, born, st, fs[i]),
                             fs, i + 1)

\* serialize_functional(root_person, persons_dict): {'root_id', 'objects'}.
serialize_functional(fr, born, root_person) ==
    [root_id |-> Id(root_person),
     objects |-> fun_collect_objects(fr, born, EmptyCollect,
                                     Id(root_person)).objects_to_save]

\* The container each variant writes; the OOP variants write the bare list.
SerializeOf(v, fr, born, person) ==
    CASE v = "encapsulated" ->
             [objects |-> PersonSerializer_serialize(fr, born, person)]
      [] v = "direct" ->
             [objects |-> DirectAccessSerializer_serialize(fr, born, person)]
      [] v = "functional" -> serialize_functional(fr, born, person)

\* -------------------------------------------------------------- deserialize
\* Objects built by deserialize live in a heap: the object built from record i
\* has address i.  A reconstructed object is [id, name, born_in, friends]; after
\* linking, friends is a sequence of addresses.
\* A build state is [heap, obj_cache, error]; error is None until a lookup fails.
Failure(kind, key, where) ==
    [ok |-> FALSE, error |-> kind, key |-> key, phase |-> where]
EmptyBuild == [heap |-> <<>>, obj_cache |-> <<>>, error |-> None]

FirstMissing(ids, cache) ==
    LET bad == {k \in 1..Len(ids) : ids[k] \notin DOMAIN cache}
    IN  IF bad = {} THEN 0 ELSE CHOOSE k \in bad : \A m \in bad : k <= m

\* Person.from_dict(data): a Person built without __init__, friends empty.
from_dict(obj_data) ==
    [id |-> obj_data.id, name |-> obj_data.name,
     born_in |-> fromisoformat(obj_data.born_in), friends |-> <<>>]

\* PersonSerializer.deserialize, phase 1: obj_cache[obj_data['id']] = from_dict(..)
RECURSIVE enc_phase1(_, _, _)
enc_phase1(objects_data, i, st) ==
    IF i > Len(objects_data)
    THEN st
    ELSE enc_phase1(objects_data, i + 1,
             [st EXCEPT !.heap = Append(@, from_dict(objects_data[i])),
                        !.obj_cache = (objects_data[i].id :> i) @@ @])

\* PersonSerializer.deserialize, phase 2: person._friends = [obj_cache[friend_id] ...]
RECURSIVE enc_phase2(_, _, _)
enc_phase2(objects_data, i, st) ==
    IF i > Len(objects_data)
    THEN st
    ELSE LET person == st.obj_cache[objects_data[i].id]
             ids == objects_data[i].friends
             miss == FirstMissing(ids, st.obj_cache)
         IN  IF miss # 0
             THEN [st EXCEPT !.error = Failure("KeyError", ids[miss], "link")]
             ELSE enc_phase2(objects_data, i + 1,
                      [st EXCEPT !.heap[person].friends =
                                     [k \in 1..Len(ids) |-> st.obj_cache[ids[k]]]])

\* PersonSerializer.deserialize(data): returns obj_cache[objects_data[0]['id']].
PersonSerializer_deserialize(objects_data) ==
    LET st == enc_phase2(objects_data, 1, enc_phase1(objects_data, 1, EmptyBuild))
    IN  IF st.error # None THEN st.error
        ELSE IF Len(objects_data) = 0 THEN Failure("IndexError", 0, "return")
        ELSE [ok |-> TRUE, root |-> st.obj_cache[objects_data[1].id],
              heap |-> st.heap, mapping |-> <<>>]

\* DirectAccessSerializer.deserialize, phase 1: the object is built in place by
\* __new__ and field assignment, then obj_cache[obj._id] = obj.
RECURSIVE dir_phase1(_, _, _)
dir_phase1(objects_data, i, st) ==
    IF i > Len(objects_data)
    THEN st
    ELSE LET obj == [id |-> objects_data[i].id, name |-> objects_data[i].name,
                     born_in |-> fromisoformat(objects_data[i].born_in),
                     friends |-> <<>>]
         IN  dir_phase1(objects_data, i + 1,
                 [st EXCEPT !.heap = Append(@, obj),
                            !.obj_cache = (obj.id :> i) @@ @])

\* DirectAccessSerializer.deserialize, phase 2.
RECURSIVE dir_phase2(_, _, _)
dir_phase2(objects_data, i, st) ==
    IF i > Len(objects_data)
    THEN st
    ELSE LET obj == st.obj_cache[objects_data[i].id]
             ids == objects_data[i].friends
             miss == FirstMissing(ids, st.obj_cache)
         IN  IF miss # 0
             THEN [st EXCEPT !.error = Failure("KeyError", ids[miss], "link")]
             ELSE dir_phase2(objects_data, i + 1,
                      [st EXCEPT !.heap[obj].friends =
                                     [k \in 1..Len(ids) |-> st.obj_cache[ids[k]]]])

\* DirectAccessSerializer.deserialize(data).
DirectAccessSerializer_deserialize(objects_data) ==
    LET st == dir_phase2(objects_data, 1, dir_phase1(objects_data, 1, EmptyBuild))
    IN  IF st.error # None THEN st.error
        ELSE IF Len(objects_data) = 0 THEN Failure("IndexError", 0, "return")
        ELSE [ok |-> TRUE, root |-> st.obj_cache[objects_data[1].id],
              heap |-> st.heap, mapping |-> <<>>]

\* deserialize_functional, phase 1.  persons_dict is a Python dict: keys keeps
\* its insertion order (a key assigned again keeps its place), obj_cache its
\* values.  factory() gives the person a fresh uuid, which is then overwritten;
\* friends starts as a copy of the record's id list.
RECURSIVE fun_phase1(_, _, _)
fun_phase1(objects, i, st) ==
    IF i > Len(objects)
    THEN st
    ELSE LET person == [id |-> objects[i].id, name |-> objects[i].name,
                        born_in |-> fromisoformat(objects[i].born_in),
                        friends |-> objects[i].friends]
         IN  fun_phase1(objects, i + 1,
                 [st EXCEPT !.heap = Append(@, person),
                            !.obj_cache = (person.id :> i) @@ @,
                            !.keys = IF person.id \in DOMAIN st.obj_cache
                                     THEN @ ELSE Append(@, person.id)])

\* deserialize_functional, phase 2: for person in persons_dict.values(), the
\* id list is replaced by the list of the persons_dict entries of its ids.
RECURSIVE fun_phase2(_, _)
fun_phase2(k, st) ==
    IF k > Len(st.keys)
    THEN st
    ELSE LET person == st.obj_cache[st.keys[k]]
             ids == st.heap[person].friends
             miss == FirstMissing(ids, st.obj_cache)
         IN  IF miss # 0
             THEN [st EXCEPT !.error = Failure("KeyError", ids[miss], "link")]
             ELSE fun_phase2(k + 1,
                      [st EXCEPT !.heap[person].friends =
                                     [j \in 1..Len(ids) |-> st.obj_cache[ids[j]]]])

deserialize_functional_first_record(parsed) ==
    LET st == fun_phase2(1, fun_phase1(parsed.objects, 1,
                  [heap |-> <<>>, obj_cache |-> <<>>, keys |-> <<>>, error |-> None]))
    IN  IF st.error # None THEN st.error
        ELSE IF Len(parsed.objects) = 0 THEN Failure("IndexError", 0, "return")
        ELSE [ok |-> TRUE, root |-> st.obj_cache[parsed.objects[1].id],
              heap |-> st.heap, mapping |-> st.obj_cache]

\* deserialize_functional(data, factory): (persons_dict[root_id], persons_dict).
deserialize_functional(parsed) ==
    LET st == fun_phase2(1, fun_phase1(parsed.objects, 1,
                  [heap |-> <<>>, obj_cache |-> <<>>, keys |-> <<>>, error |-> None]))
    IN  IF st.error # None THEN st.error
        ELSE IF parsed.root_id \notin DOMAIN st.obj_cache
             THEN Failure("KeyError", parsed.root_id, "return")
        ELSE [ok |-> TRUE, root |-> st.obj_cache[parsed.root_id],
              heap |-> st.heap, mapping |-> st.obj_cache]

DeserializeOf(v, container) ==
    CASE v = "encapsulated" -> PersonSerializer_deserialize(container.objects)
      [] v = "direct"       -> DirectAccessSerializer_deserialize(container.objects)
      [] v = "functional"   -> deserialize_functional(container)

\* ------------------------------------------------- serialize what was restored
\* The serializers applied to the objects deserialize returned.  res is the
\* result of deserialize; a restored object is named by its heap address.
\* A traversal state is [visited_ids, objects_to_save, error].
EmptyRecollect == [visited_ids |-> {}, objects_to_save |-> <<>>, error |-> None]

\* PersonSerializer.serialize.collect_objects(p) on a restored Person.
RECURSIVE enc_recollect_objects(_, _, _)
RECURSIVE enc_recollect_friends(_, _, _, _)
enc_recollect_objects(res, st, p) ==
    IF res.heap[p].id \in st.visited_ids
    THEN st
    ELSE LET rec == [id |-> res.heap[p].id, name |-> res.heap[p].name,
                     born_in |-> isoformat(res.heap[p].born_in),
                     friends |-> [k \in 1..Len(res.heap[p].friends) |->
                                     res.heap[res.heap[p].friends[k]].id]]
         IN  enc_recollect_friends(res,
                 [st EXCEPT !.visited_ids = @ \cup {res.heap[p].id},
                            !.objects_to_save = Append(@, rec)],
                 res.heap[p].friends, 1)
enc_recollect_friends(res, st, fs, i) ==
    IF i > Len(fs)
    THEN st
    ELSE enc_recollect_friends(res, enc_recollect_objects(res, st, fs[i]), fs, i + 1)

\* PersonSerializer.serialize(restored).
PersonSerializer_reserialize(res) ==
    [objects |-> enc_recollect_objects(res, EmptyRecollect, res.root).objects_to_save]

\* DirectAccessSerializer.serialize.collect_objects(p) on a restored object.
RECURSIVE dir_recollect_objects(_, _, _)
RECURSIVE dir_recollect_friends(_, _, _, _)
dir_recollect_objects(res, st, p) ==
    IF res.heap[p].id \in st.visited_ids
    THEN st
    ELSE LET obj_data == [id |-> res.heap[p].id, name |-> res.heap[p].name,
                          born_in |-> isoformat(res.heap[p].born_in),
                          friends |-> [k \in 1..Len(res.heap[p].friends) |->
                                          res.heap[res.heap[p].friends[k]].id]]
         IN  dir_recollect_friends(res,
                 [st EXCEPT !.visited_ids = @ \cup {res.heap[p].id},
                            !.objects_to_save = Append(@, obj_data)],
                 res.heap[p].friends, 1)
dir_recollect_friends(res, st, fs, i) ==
    IF i > Len(fs)
    THEN st
    ELSE dir_recollect_friends(res, dir_recollect_objects(res, st, fs[i]), fs, i + 1)

\* DirectAccessSerializer.serialize(restored).
DirectAccessSerializer_reserialize(res) ==
    [objects |-> dir_recollect_objects(res, EmptyRecollect, res.root).objects_to_save]

\* serialize_functional.collect_objects(person_id) with the returned mapping as
\* persons_dict.  The argument is [kind, value]: the first call is given the
\* root's id, a str; the loop over person['friends'] gives what
\* deserialize_functional left there, the friends' dicts (kind "dict", value the
\* address).  "person_id in visited_ids" hashes its argument, and a dict is not
\* hashable: TypeError.
RECURSIVE fun_recollect_objects(_, _, _)
RECURSIVE fun_recollect_friends(_, _, _, _)
fun_recollect_objects(res, st, person_id) ==
    IF st.error # None
    THEN st
    ELSE IF person_id.kind = "dict"
    THEN [st EXCEPT !.error = Failure("TypeError", person_id.value, "collect")]
    ELSE IF person_id.value \in st.visited_ids
    THEN st
    ELSE LET person == res.heap[res.mapping[person_id.value]]
             obj_copy == [id |-> person.id, name |-> person.name,
                          born_in |-> isoformat(person.born_in),
                          friends |-> person.friends]
         IN  fun_recollect_friends(res,
                 [st EXCEPT !.visited_ids = @ \cup {person_id.value},
                            !.objects_to_save = Append(@, obj_copy)],
                 person.friends, 1)
fun_recollect_friends(res, st, fs, i) ==
    IF i > Len(fs) \/ st.error # None
    THEN st
    ELSE fun_recollect_friends(res,
             fun_recollect_objects(res, st, [kind |-> "dict", value |-> fs[i]]),
             fs, i + 1)

\* serialize_functional(restored, all_restored).
reserialize_functional(res) ==
    LET root_person == res.heap[res.root]
        st == fun_recollect_objects(res, EmptyRecollect,
                                    [kind |-> "str", value |-> root_person.id])
    IN  IF st.error # None THEN st.error
        ELSE [root_id |-> root_person.id, objects |-> st.objects_to_save]

ReserializeOf(v, res) ==
    CASE v = "encapsulated" -> PersonSerializer_reserialize(res)
      [] v = "direct"       -> DirectAccessSerializer_reserialize(res)
      [] v = "functional"   -> reserialize_functional(res)

\* ------------------------------------------------------------------ actions
Init ==
    /\ variant \in Variants
    /\ born_in \in BornInChoices
    /\ friends = [p \in Persons |-> <<>>]
    /\ calls = 0
    /\ last = [op |-> "create"]
    /\ root = None
    /\ sent = None
    /\ data = None
    /\ tampered = <<>>
    /\ restored = None
    /\ resent = None
    /\ phase = "idle"
    /\ stack = <<>>
    /\ visited_ids = {}
    /\ objects_to_save = <<>>
    /\ visits = 0

\* a.add_friend(b) / add_friend(a, b, all_persons), while the graph is built.
AddFriend(a, b) ==
    /\ sent = None
    /\ phase = "idle"
    /\ calls < MaxCalls
    /\ friends' = AddFriendOf(variant, friends, a, b)
    /\ calls' = calls + 1
    /\ last' = [op |-> "add_friend", a |-> a, b |-> b, before |-> friends]
    /\ UNCHANGED <<variant, born_in, root, sent, data, tampered, restored>>
    /\ UNCHANGED resent
    /\ UNCHANGED collectVars

\* serializer.serialize(person) / serialize_functional(person, all_persons).
Serialize(person) ==
    /\ sent = None
    /\ phase = "idle"
    /\ sent' = SerializeOf(variant, friends, born_in, person)
    /\ data' = sent'
    /\ last' = [op |-> "serialize"]
    /\ root' = person
    /\ UNCHANGED <<variant, born_in, friends, calls, tampered, restored>>
    /\ UNCHANGED resent
    /\ UNCHANGED collectVars

\* The container is edited between encode and decode: two records change places.
SwapRecords(i, j) ==
    /\ data # None
    /\ restored = None
    /\ Len(tampered) < MaxTamper
    /\ i < j
    /\ j <= Len(data.objects)
    /\ data' = [data EXCEPT !.objects = [@ EXCEPT ![i] = data.objects[j],
                                                  ![j] = data.objects[i]]]
    /\ tampered' = Append(tampered, "swap")
    /\ last' = [op |-> "swap", i |-> i, j |-> j]
    /\ UNCHANGED <<variant, born_in, friends, calls, root, sent, restored>>
    /\ UNCHANGED resent
    /\ UNCHANGED collectVars

\* The container is truncated: record i is lost.
DropRecord(i) ==
    /\ data # None
    /\ restored = None
    /\ Len(tampered) < MaxTamper
    /\ i <= Len(data.objects)
    /\ data' = [data EXCEPT !.objects =
                   [k \in 1..(Len(@) - 1) |-> IF k < i THEN @[k] ELSE @[k + 1]]]
    /\ tampered' = Append(tampered, "drop")
    /\ last' = [op |-> "drop", i |-> i]
    /\ UNCHANGED <<variant, born_in, friends, calls, root, sent, restored>>
    /\ UNCHANGED resent
    /\ UNCHANGED collectVars

\* The container is corrupted: record i gets the id of record j.
CollideId(i, j) ==
    /\ data # None
    /\ restored = None
    /\ Len(tampered) < MaxTamper
    /\ i # j
    /\ i <= Len(data.objects)
    /\ j <= Len(data.objects)
    /\ data.objects[i].id # data.objects[j].id
    /\ data' = [data EXCEPT !.objects[i].id = data.objects[j].id]
    /\ tampered' = Append(tampered, "collide")
    /\ last' = [op |-> "collide", i |-> i, j |-> j]
    /\ UNCHANGED <<variant, born_in, friends, calls, root, sent, restored>>
    /\ UNCHANGED resent
    /\ UNCHANGED collectVars

\* The container is corrupted: a copy of record i is written again at the end.
DuplicateRecord(i) ==
    /\ data # None
    /\ restored = None
    /\ Len(tampered) < MaxTamper
    /\ i <= Len(data.objects)
    /\ data' = [data EXCEPT !.objects = Append(@, data.objects[i])]
    /\ tampered' = Append(tampered, "duplicate")
    /\ last' = [op |-> "duplicate", i |-> i]
    /\ UNCHANGED <<variant, born_in, friends, calls, root, sent, restored>>
    /\ UNCHANGED resent
    /\ UNCHANGED collectVars

\* The container is corrupted: a copy of record i is written again at the end
\* under the id of record j, so that two different records have one id.
AppendColliding(i, j) ==
    /\ data # None
    /\ restored = None
    /\ Len(tampered) < MaxTamper
    /\ i # j
    /\ i <= Len(data.objects)
    /\ j <= Len(data.objects)
    /\ data' = [data EXCEPT !.objects =
                   Append(@, [data.objects[i] EXCEPT !.id = data.objects[j].id])]
    /\ tampered' = Append(tampered, "append colliding")
    /\ last' = [op |-> "append colliding", i |-> i, j |-> j]
    /\ UNCHANGED <<variant, born_in, friends, calls, root, sent, restored>>
    /\ UNCHANGED resent
    /\ UNCHANGED collectVars

\* serializer.deserialize(data) / deserialize_functional(data, person_factory).
Deserialize ==
    /\ data # None
    /\ restored = None
    /\ restored' = DeserializeOf(variant, data)
    /\ last' = [op |-> "deserialize"]
    /\ UNCHANGED <<variant, born_in, friends, calls, root, sent, data, tampered>>
    /\ UNCHANGED resent
    /\ UNCHANGED collectVars

\* serializer.serialize(restored) / serialize_functional(restored, all_restored).
Reserialize ==
    /\ restored # None
    /\ restored.ok
    /\ resent = None
    /\ resent' = ReserializeOf(variant, restored)
    /\ last' = [op |-> "reserialize"]
    /\ UNCHANGED <<variant, born_in, friends, calls, root, sent, data, tampered,
                   restored>>
    /\ UNCHANGED collectVars

Next ==
    \/ \E a, b \in Persons : AddFriend(a, b)
    \/ \E person \in Persons : Serialize(person)
    \/ \E i, j \in Persons : SwapRecords(i, j)
    \/ \E i \in Persons : DropRecord(i)
    \/ \E i, j \in Persons : CollideId(i, j)
    \/ \E i \in Persons : DuplicateRecord(i)
    \/ \E i, j \in Persons : AppendColliding(i, j)
    \/ Deserialize
    \/ Reserialize

Spec == Init /\ [][Next]_vars

\* ------------------------------------------------------ stepwise traversal
\* collect_objects run one call at a time.  A frame [p, i] is an active call of
\* collect_objects(p) whose loop over p's friends is at position i.

\* "if p._id in visited_ids: return" / "if person_id in visited_ids: return".
is_visited_never(ids, id) == FALSE
is_visited(ids, id) == id \in ids

\* The record appended for person p.
RecordOf(v, fr, born, p) ==
    IF v = "functional"
    THEN [id |-> Id(p), name |-> Name(p), born_in |-> isoformat(born[p]),
          friends |-> fr[p]]
    ELSE to_dict(fr, born, p)

\* serialize(person) starts: collect_objects(person) finds visited_ids empty,
\* marks the person, appends its record and enters the loop over its friends.
CollectStart(person) ==
    /\ phase = "idle"
    /\ phase' = "collect"
    /\ root' = person
    /\ visited_ids' = {Id(person)}
    /\ objects_to_save' = <<RecordOf(variant, friends, born_in, person)>>
    /\ stack' = <<[p |-> person, i |-> 1]>>
    /\ visits' = 1
    /\ last' = [op |-> "collect"]
    /\ UNCHANGED <<variant, born_in, friends, calls, sent, data, tampered, restored,
                   resent>>

\* The loop of the innermost call reaches its next friend and calls
\* collect_objects on it: the call returns at once when the friend's id is in
\* visited_ids, and otherwise marks it, appends its record and becomes the
\* innermost call.
CollectCall ==
    /\ phase = "collect"
    /\ Len(stack) < MaxDepth
    /\ LET top == stack[Len(stack)]
           fs == FriendPersons(friends, variant, top.p)
       IN  /\ top.i <= Len(fs)
           /\ LET friend == fs[top.i]
                  advanced == [stack EXCEPT ![Len(stack)].i = top.i + 1]
              IN  IF is_visited(visited_ids, Id(friend))
                  THEN /\ stack' = advanced
                       /\ UNCHANGED <<visited_ids, objects_to_save>>
                  ELSE /\ stack' = Append(advanced, [p |-> friend, i |-> 1])
                       /\ visited_ids' = visited_ids \cup {Id(friend)}
                       /\ objects_to_save' =
                              Append(objects_to_save,
                                     RecordOf(variant, friends, born_in, friend))
    /\ visits' = visits + 1
    /\ UNCHANGED <<variant, born_in, friends, calls, last, root, sent, data,
                   tampered, restored, resent, phase>>

\* The loop of the innermost call is exhausted and the call returns; when it
\* was the outermost call, the traversal is over.
CollectReturn ==
    /\ phase = "collect"
    /\ LET top == stack[Len(stack)]
       IN  top.i > Len(friends[top.p])
    /\ stack' = SubSeq(stack, 1, Len(stack) - 1)
    /\ phase' = IF Len(stack) = 1 THEN "done" ELSE "collect"
    /\ UNCHANGED <<variant, born_in, friends, calls, last, root, sent, data,
                   tampered, restored, resent, visited_ids, objects_to_save, visits>>

CollectStep == CollectCall \/ CollectReturn

NextCollect ==
    \/ \E a, b \in Persons : AddFriend(a, b)
    \/ \E person \in Persons : CollectStart(person)
    \/ CollectCall
    \/ CollectReturn

\* A call of serialize, once started, runs on until it returns.
CollectSpec == Init /\ [][NextCollect]_vars /\ WF_vars(CollectStep)

\* ============================================================== properties
\* The persons reachable from the persons of S through the friends relation.
RECURSIVE Closure(_, _, _)
Closure(fr, v, S) ==
    LET T == S \cup UNION {Range(FriendPersons(fr, v, p)) : p \in S}
    IN  IF T = S THEN S ELSE Closure(fr, v, T)
Reachable(fr, v, p) == Closure(fr, v, {p})

\* The reconstructed objects reachable from the returned root.
RECURSIVE HeapClosure(_, _)
HeapClosure(heap, S) ==
    LET T == S \cup UNION {Range(heap[a].friends) : a \in S}
    IN  IF T = S THEN S ELSE HeapClosure(heap, T)
HeapReachable(res) == HeapClosure(res.heap, {res.root})

\* The ids of the friends of the reconstructed object at address a, in order.
ObjectFriendIds(res, a) ==
    [k \in 1..Len(res.heap[a].friends) |-> res.heap[res.heap[a].friends[k]].id]

\* The reconstructed graph by content: one entry per reachable object.
GraphView(res) ==
    { [id |-> res.heap[a].id, name |-> res.heap[a].name,
       born_in |-> res.heap[a].born_in, friends |-> ObjectFriendIds(res, a)] :
          a \in HeapReachable(res) }

\* The persons whose records a container holds, in record order.
RecordPersons(container) ==
    [k \in 1..Len(container.objects) |-> persons_dict(container.objects[k].id)]

Edges(fr, v) == {<<a, b>> \in Persons \X Persons : b \in Range(FriendPersons(fr, v, a))}

\* C1: round trip.  Decoding what encode(root) wrote succeeds, returns the
\* node with root's id, and for every person reachable from root there is a
\* reconstructed node with the same id, name and born_in whose friends resolve
\* to the same ids in the same order.
RoundTrip ==
    (restored # None /\ tampered = <<>>) =>
        /\ restored.ok
        /\ restored.heap[restored.root].id = Id(root)
        /\ \A p \in Reachable(friends, variant, root) :
               \E a \in HeapReachable(restored) :
                   /\ restored.heap[a].id = Id(p)
                   /\ restored.heap[a].name = Name(p)
                   /\ restored.heap[a].born_in = born_in[p]
                   /\ ObjectFriendIds(restored, a) = FriendIds(friends, variant, p)

\* A triangle was encoded and decoded, with a non-zero microsecond in it.
RoundTripWitness ==
    /\ restored # None
    /\ tampered = <<>>
    /\ restored.ok
    /\ Cardinality(Reachable(friends, variant, root)) = 3
    /\ \A p \in Reachable(friends, variant, root) : Len(friends[p]) = 2
    /\ born_in[root].us # 0

\* C2: exactly once.  encode writes one record for every person reachable from
\* root and no id twice, so the number of records is the number of reachable
\* persons; an isolated root gives one record with an empty friends list.
ExactlyOnce ==
    sent # None =>
        LET objs == sent.objects
            reach == Reachable(friends, variant, root)
        IN  /\ \A i, j \in 1..Len(objs) : objs[i].id = objs[j].id => i = j
            /\ {objs[i].id : i \in 1..Len(objs)} = {Id(p) : p \in reach}
            /\ Len(objs) = Cardinality(reach)
            /\ (friends[root] = <<>> =>
                    Len(objs) = 1 /\ objs[1].friends = <<>>)

\* A triangle was encoded: three records although every node has two incoming
\* edges and lies on a cycle.
ExactlyOnceWitness ==
    /\ sent # None
    /\ Len(sent.objects) = 3
    /\ \A p \in Reachable(friends, variant, root) : Len(friends[p]) = 2

\* C4: symmetry.  After any sequence of add_friend calls, b is in a's friends
\* exactly when a is in b's friends.
Symmetry ==
    \A a, b \in Persons :
        b \in Range(FriendPersons(friends, variant, a))
            <=> a \in Range(FriendPersons(friends, variant, b))

\* add_friend(a, b) has just linked two different persons that were not linked.
SymmetryWitness ==
    /\ last.op = "add_friend"
    /\ last.a # last.b
    /\ <<last.a, last.b>> \notin Edges(last.before, variant)
    /\ <<last.a, last.b>> \in Edges(friends, variant)
    /\ <<last.b, last.a>> \in Edges(friends, variant)

\* C5: idempotence.  add_friend(a, b) called when the edge between a and b
\* exists (in either direction) leaves every friends list as it was.
Idempotence ==
    (/\ last.op = "add_friend"
     /\ \/ <<last.a, last.b>> \in Edges(last.before, variant)
        \/ <<last.b, last.a>> \in Edges(last.before, variant))
        => friends = last.before

\* add_friend(a, b) was called after add_friend(b, a) had made the edge.
IdempotenceWitness ==
    /\ last.op = "add_friend"
    /\ last.a # last.b
    /\ Len(last.before[last.b]) > 0
    /\ FriendPersons(last.before, variant, last.b)[1] = last.a
    /\ FriendPersons(last.before, variant, last.a)[1] = last.b
    /\ calls = 2

\* C10: no duplicate friend.  No friends list holds the same target twice,
\* also after add_friend(a, a).
NoDuplicateFriend ==
    \A p \in Persons :
        \A i, j \in 1..Len(friends[p]) : friends[p][i] = friends[p][j] => i = j

\* Some record's friends list holds an id that no record of the container has.
HasDangling(container) ==
    \E i \in 1..Len(container.objects) :
        \E k \in 1..Len(container.objects[i].friends) :
            \A j \in 1..Len(container.objects) :
                container.objects[j].id # container.objects[i].friends[k]

\* Two records of the container have the same id.
HasDuplicateId(container) ==
    \E i, j \in 1..Len(container.objects) :
        i # j /\ container.objects[i].id = container.objects[j].id

\* C6: dangling-reference rejection.  Decoding a container with a dangling
\* friend id fails with a lookup error raised while linking; nothing is returned.
DanglingRejected ==
    (restored # None /\ HasDangling(data)) =>
        /\ ~restored.ok
        /\ restored.error = "KeyError"
        /\ restored.phase = "link"

\* C7: duplicate-id rejection.  Decoding a container in which two records have
\* the same id fails; no graph is returned.
DuplicateIdRejected ==
    (restored # None /\ HasDuplicateId(data)) => ~restored.ok

\* The container with its records rearranged by perm.
Permuted(container, perm) ==
    [container EXCEPT !.objects = [k \in 1..Len(@) |-> @[perm[k]]]]

OnlySwapped == tampered # <<>> /\ \A k \in 1..Len(tampered) : tampered[k] = "swap"

\* C8 as stated: decoding a permutation of encode(root)'s records returns the
\* node with root's id and the same graph as decoding the records as written,
\* in every variant.
PermutationSameRoot ==
    (restored # None /\ OnlySwapped) =>
        /\ restored.ok
        /\ restored.heap[restored.root].id = Id(root)
        /\ GraphView(restored) = GraphView(DeserializeOf(variant, sent))

\* What decoding container c must give, for the records of encode(root) in any
\* order: the same graph; the node with root's id in the functional variant,
\* the node of the first record of c in the two OOP variants.
SameGraphAs(res, c) ==
    /\ res.ok
    /\ GraphView(res) = GraphView(DeserializeOf(variant, sent))
    /\ res.heap[res.root].id =
           IF variant = "functional" THEN Id(root) ELSE c.objects[1].id

\* C8 amended: decoding any permutation of encode(root)'s records rebuilds the
\* same graph; the functional variant returns the node with root's id, the two
\* OOP variants return the node of whichever record now comes first.
PermutationSameGraph ==
    /\ (restored # None /\ OnlySwapped) => SameGraphAs(restored, data)
    /\ last.op = "serialize" =>
           \A perm \in Permutations(1..Len(sent.objects)) :
               SameGraphAs(DeserializeOf(variant, Permuted(sent, perm)),
                           Permuted(sent, perm))

\* An OOP decoder was given three records with the root's record moved away
\* from the front, and returned another node than the root.
PermutationWitness ==
    /\ restored # None
    /\ OnlySwapped
    /\ restored.ok
    /\ variant # "functional"
    /\ Len(data.objects) >= 3
    /\ restored.heap[restored.root].id # Id(root)

\* s is the depth-first pre-order from r: it starts with r, and every later
\* element is the first friend not yet listed of the latest listed person that
\* still has such a friend; when s ends, no listed person has one.
IsPreOrder(s, fr, v, r) ==
    /\ Len(s) >= 1
    /\ s[1] = r
    /\ \A k \in 2..Len(s) :
           LET seen == {s[j] : j \in 1..(k - 1)}
               open == {j \in 1..(k - 1) :
                            Range(FriendPersons(fr, v, s[j])) \ seen # {}}
           IN  /\ open # {}
               /\ LET j == CHOOSE x \in open : \A y \in open : y <= x
                      fs == FriendPersons(fr, v, s[j])
                      first == CHOOSE x \in 1..Len(fs) :
                                   /\ fs[x] \notin seen
                                   /\ \A y \in 1..(x - 1) : fs[y] \in seen
                  IN  s[k] = fs[first]
    /\ \A j \in 1..Len(s) : Range(FriendPersons(fr, v, s[j])) \subseteq Range(s)

\* C9: pre-order output.  The records of encode(root) are in depth-first
\* pre-order (friends in list order, first visit only), the root's record is
\* first, and the position-based decoders return the node with root's id.
PreOrder ==
    sent # None =>
        /\ IsPreOrder(RecordPersons(sent), friends, variant, root)
        /\ sent.objects[1].id = Id(root)
        /\ (variant # "functional" /\ restored # None /\ tampered = <<>>) =>
               restored.ok /\ restored.heap[restored.root].id = Id(root)

\* A position-based decoder decoded a four-record container whose order is
\* depth-first and not breadth-first: the third record is no friend of the root.
PreOrderWitness ==
    /\ variant # "functional"
    /\ restored # None
    /\ tampered = <<>>
    /\ restored.ok
    /\ Len(sent.objects) = 4
    /\ RecordPersons(sent)[3] \notin Range(friends[root])

\* C3: cycle termination.  The traversal never expands a person twice, so the
\* number of non-returning visits (and the depth of the recursion) is at most
\* the number of persons reachable from the root, and every traversal that
\* starts comes to its end.
CycleTermination ==
    /\ [](phase # "idle" =>
            /\ Len(objects_to_save) <= Cardinality(Reachable(friends, variant, root))
            /\ Len(stack) <= Len(objects_to_save)
            /\ \A i, j \in 1..Len(objects_to_save) :
                   objects_to_save[i].id = objects_to_save[j].id => i = j)
    /\ (phase = "collect") ~> (phase = "done")

\* The traversal of a triangle has ended; some calls returned at once.
CycleTerminationWitness ==
    /\ phase = "done"
    /\ Cardinality(Reachable(friends, variant, root)) = 3
    /\ \A p \in Reachable(friends, variant, root) : Len(friends[p]) = 2
    /\ visits > Len(objects_to_save)

\* The traversal of a mutual pair has ended.
MutualPairTraversed ==
    /\ phase = "done"
    /\ Cardinality(Reachable(friends, variant, root)) = 2
    /\ Len(objects_to_save) = 2

\* The stepwise traversal ends with the list the serializers return.
CollectAgrees ==
    phase = "done" =>
        objects_to_save = SerializeOf(variant, friends, born_in, root).objects

\* Without a duplicated id, a dangling friend id is always rejected.
DanglingRejectedWithoutDuplicates ==
    (restored # None /\ HasDangling(data) /\ ~HasDuplicateId(data)) =>
        /\ ~restored.ok
        /\ restored.error = "KeyError"
        /\ restored.phase = "link"

\* The nodes of a decode: the objects obj_cache / persons_dict holds when
\* phase 1 is over.  Each record builds one object and stores it under its id,
\* so the object of the last record with an id is the node for that id.
ResultNodes(res) ==
    {a \in 1..Len(res.heap) :
        \A b \in 1..Len(res.heap) : res.heap[b].id = res.heap[a].id => b <= a}

RecordIds(container) ==
    {container.objects[i].id : i \in 1..Len(container.objects)}

\* Every friend id of every record is the id of a record that lists it back.
EncodedSymmetric(container) ==
    \A i \in 1..Len(container.objects) :
        \A k \in 1..Len(container.objects[i].friends) :
            \E j \in 1..Len(container.objects) :
                /\ container.objects[j].id = container.objects[i].friends[k]
                /\ container.objects[i].id \in Range(container.objects[j].friends)

\* What shared reconstruction asks of the result res of decoding container c:
\* exactly one node per record id (the functional mapping has exactly the
\* record ids as keys, each naming the node with that id), every element of a
\* node's friends is one of these nodes and not a copy, and when the encoded
\* relation is symmetric every friend of a node has that very node among its
\* own friends, so a cycle leads back to the same root object.
Shared(res, c) ==
    LET nodes == ResultNodes(res)
        heap == res.heap
    IN  /\ \A a, b \in nodes : heap[a].id = heap[b].id => a = b
        /\ {heap[a].id : a \in nodes} = RecordIds(c)
        /\ (variant = "functional" =>
                /\ DOMAIN res.mapping = RecordIds(c)
                /\ {res.mapping[id] : id \in DOMAIN res.mapping} = nodes
                /\ \A id \in DOMAIN res.mapping : heap[res.mapping[id]].id = id)
        /\ res.root \in nodes
        /\ \A a \in nodes : Range(heap[a].friends) \subseteq nodes
        /\ (EncodedSymmetric(c) =>
                \A a \in nodes : \A b \in Range(heap[a].friends) :
                    a \in Range(heap[b].friends))

\* C11: shared reconstruction.  After every successful decode there is exactly
\* one node per record id, friends elements are those nodes themselves, and the
\* reconstructed friends relation is symmetric whenever the encoded one was.
SharedReconstruction ==
    (restored # None /\ restored.ok) => Shared(restored, data)

\* For a container without a repeated id the reconstruction is shared, and no
\* object is built besides the nodes.
SharedReconstructionWithoutDuplicates ==
    (restored # None /\ restored.ok /\ ~HasDuplicateId(data)) =>
        /\ Shared(restored, data)
        /\ ResultNodes(restored) = 1..Len(restored.heap)

\* A triangle was decoded: three nodes, and the first friend of the root has
\* the root object itself among its friends.
SharedReconstructionWitness ==
    /\ restored # None
    /\ restored.ok
    /\ tampered = <<>>
    /\ Cardinality(ResultNodes(restored)) = 3
    /\ \A a \in ResultNodes(restored) : Len(restored.heap[a].friends) = 2
    /\ restored.root \in
           Range(restored.heap[restored.heap[restored.root].friends[1]].friends)

\* C12: re-encode stability.  In every variant the result of decode can be
\* encoded again, and encoding it gives the record sequence encode(root) gave.
ReencodeStable ==
    (resent # None /\ tampered = <<>>) => resent = sent

\* In the two OOP variants encoding the decoded graph gives back encode(root);
\* in the functional variant it does so only for a root without friends, and
\* otherwise the traversal raises TypeError at the root's first friend.
ReencodeStableWhereHashable ==
    (resent # None /\ tampered = <<>>) =>
        IF variant = "functional" /\ friends[root] # <<>>
        THEN resent = Failure("TypeError", restored.heap[restored.root].friends[1],
                              "collect")
        ELSE resent = sent

\* A decoded triangle was encoded again by an OOP serializer.
ReencodeWitnessOOP ==
    /\ resent # None
    /\ tampered = <<>>
    /\ variant # "functional"
    /\ Len(resent.objects) = 3

====
